---------------------------- MODULE Spec2Model ----------------------------
(***************************************************************************)
(* A model of the text-buffer editing engine of noter (package noter,      *)
(* type Editor): the linked list of lines, the cursor, the selection       *)
(* highlight map, the undo stack of inverse actions and the search engine. *)
(*                                                                         *)
(* Runes and bytes are integers (code points / byte values).  A line       *)
(* pointer to an editorLine is an integer identity; the list reachable     *)
(* from e.start by next links is the sequence `start` of [id, values]      *)
(* records (prev/next are the neighbours in that sequence).  Offsets       *)
(* (cursor.x, highlighted offsets) are 0-based as in the code.             *)
(***************************************************************************)
EXTENDS Integers, Sequences, FiniteSets, TLC

VARIABLES
    start,             \* e.start and the lines linked from it: Seq([id, values])
    cursor,            \* e.cursor: [line |-> id, x |-> Int]
    highlighted,       \* e.highlighted: set of <<line id, offset>>
    searchHighlights,  \* e.searchHighlights: set of <<line id, offset>>
    undoStack,         \* e.undoStack: Seq(inverse action), top is the last
    mode,              \* e.mode
    searchTerm,        \* e.searchTerm: Seq(rune)
    searchIndex,       \* e.searchIndex
    modified,          \* e.modified
    firstVisible,      \* e.firstVisible
    content,           \* the bytes held by the Content provider (e.content)
    halted,            \* "run", or how the process ended: "panic" / "fatal"
    req,               \* history: the kind of the last request handled
    arg,               \* history: the text given to the last load request
    rets               \* history: what the entries the last undo request invoked returned

vars == <<start, cursor, highlighted, searchHighlights, undoStack, mode,
          searchTerm, searchIndex, modified, firstVisible, content, halted,
          req, arg, rets>>

---------------------------------------------------------------------------
(* Program constants *)

EDIT_MODE == 0
SEARCH_MODE == 1

NL == 10
SPACE == 32
RuneError == 65533

(* Bounds of the model *)

\* rows of the viewport (WithRows)
Rows == 2
\* longest content text (bytes) handed to WriteText
MaxText == 3
\* most runes a document may hold before inserting requests are refused
MaxDoc == 3
\* deepest undo stack before storing requests are refused
MaxUndo == 1
\* longest search term
MaxTerm == 2
\* longest clipboard text pasted
MaxPaste == 2

---------------------------------------------------------------------------
(* Sequences *)

\* a local variable: Body of the value v, which is computed once
With(v, Body(_)) == Body(v)

\* Go's s[lo:hi] on a slice of length Len(s), 0-based, hi exclusive
Slice(s, lo, hi) == SubSeq(s, lo + 1, hi)

\* Go's s[i], 0-based
At(s, i) == s[i + 1]

RECURSIVE SeqsUpTo(_, _)
SeqsUpTo(S, n) ==
    IF n = 0 THEN {<<>>}
    ELSE With(SeqsUpTo(S, n - 1), LAMBDA shorter :
             shorter \cup {Append(s, c) : s \in {t \in shorter : Len(t) = n - 1}, c \in S})

RECURSIVE Flatten(_)
Flatten(ss) == IF ss = <<>> THEN <<>> ELSE Head(ss) \o Flatten(Tail(ss))

Last(s) == s[Len(s)]
Front(s) == SubSeq(s, 1, Len(s) - 1)

---------------------------------------------------------------------------
(* Text conversions: string(bytes) ranged over as runes, and               *)
(* []byte(string(runes)).  Bytes below 0x80 are one rune each; a byte that *)
(* starts no valid UTF-8 sequence decodes to U+FFFD, which encodes to the  *)
(* three bytes EF BF BD.                                                   *)

DecodeByte(b) == IF b < 128 THEN b ELSE RuneError

RECURSIVE DecodeText(_)
DecodeText(bytes) ==
    IF bytes = <<>> THEN <<>>
    ELSE <<DecodeByte(Head(bytes))>> \o DecodeText(Tail(bytes))

EncodeRune(r) == IF r < 128 THEN <<r>> ELSE <<239, 191, 189>>

RECURSIVE EncodeText(_)
EncodeText(runes) ==
    IF runes = <<>> THEN <<>>
    ELSE EncodeRune(Head(runes)) \o EncodeText(Tail(runes))

---------------------------------------------------------------------------
(* The editor state as one record, on which the methods of Editor are      *)
(* operators.                                                              *)

E == [start |-> start, cursor |-> cursor, highlighted |-> highlighted,
      searchHighlights |-> searchHighlights, undoStack |-> undoStack,
      mode |-> mode, searchTerm |-> searchTerm, searchIndex |-> searchIndex,
      modified |-> modified, firstVisible |-> firstVisible,
      content |-> content, halted |-> halted]

\* a panic (index out of range, nil dereference) ends the process
Panic(e) == [e EXCEPT !.halted = "panic"]

\* log.Fatalf ends the process
Fatal(e) == [e EXCEPT !.halted = "fatal"]

Running(e) == e.halted = "run"

\* 1-based position of line `id` in the list from e.start, 0 when not linked
LineIdx(e, id) ==
    IF \E i \in 1..Len(e.start) : e.start[i].id = id
    THEN CHOOSE i \in 1..Len(e.start) : e.start[i].id = id
    ELSE 0

CursorIdx(e) == LineIdx(e, e.cursor.line)

\* e.cursor.line.values
CursorValues(e) == e.start[CursorIdx(e)].values

SetValues(e, i, v) == [e EXCEPT !.start[i].values = v]

\* an identity no live pointer holds: a freshly allocated &editorLine{}
FreshId(e) ==
    With({e.start[i].id : i \in 1..Len(e.start)}
            \cup {p[1] : p \in e.highlighted}
            \cup {p[1] : p \in e.searchHighlights}
            \cup {e.cursor.line},
         LAMBDA used : CHOOSE n \in 1..(Cardinality(used) + 1) : n \notin used)

getAllRunes(e) == Flatten([i \in 1..Len(e.start) |-> e.start[i].values])

ReadText(e) == EncodeText(getAllRunes(e))

---------------------------------------------------------------------------
(* Mode switches and flags *)

resetHighlight(e) == [e EXCEPT !.highlighted = {}]

setModified(e) == [e EXCEPT !.modified = TRUE]

\* entering search mode with the selection kept
searchModeKeepingSelection(e) ==
    [e EXCEPT !.mode = SEARCH_MODE, !.searchHighlights = {}]

searchMode(e) ==
    [resetHighlight(e) EXCEPT !.mode = SEARCH_MODE, !.searchHighlights = {}]

editMode(e) ==
    [e EXCEPT !.mode = EDIT_MODE, !.searchTerm = <<>>, !.searchHighlights = {}]

---------------------------------------------------------------------------
(* Cursor position *)

\* editorCursor.FixPosition: clamp x to the last offset of the line
FixPosition(e) ==
    With(Len(CursorValues(e)) - 1, LAMBDA limit :
        IF e.cursor.x > limit THEN [e EXCEPT !.cursor.x = limit] ELSE e)

\* The walk from e.start stops at `line` or at the cursor's line, whichever
\* comes first; 0 stands for a walk that runs off the list (nil dereference).
getLineNumberFromLine(e, line) ==
    With({i \in 1..Len(e.start) :
             e.start[i].id = line \/ e.start[i].id = e.cursor.line},
         LAMBDA hits : IF hits = {} THEN 0
                       ELSE CHOOSE i \in hits : \A j \in hits : i <= j)

getLineNumber(e) == getLineNumberFromLine(e, e.cursor.line) - 1

\* fixPosition bringing a cursor below the viewport to the top row
fixPositionToTop(e) ==
    IF ~Running(e) THEN e
    ELSE IF CursorIdx(e) = 0 THEN Panic(e)
    ELSE With(FixPosition(e), LAMBDA e1 :
         With(getLineNumberFromLine(e1, e1.cursor.line) - 1, LAMBDA lineno :
             IF lineno < e1.firstVisible \/ lineno > e1.firstVisible + Rows - 1
             THEN [e1 EXCEPT !.firstVisible = lineno]
             ELSE e1))

\* Editor.fixPosition: clamp the cursor, then scroll it into the viewport
fixPosition(e) ==
    IF ~Running(e) THEN e
    ELSE IF CursorIdx(e) = 0 THEN Panic(e)
    ELSE With(FixPosition(e), LAMBDA e1 :
         With(getLineNumberFromLine(e1, e1.cursor.line) - 1, LAMBDA lineno :
             IF lineno < e1.firstVisible
             THEN [e1 EXCEPT !.firstVisible = lineno]
             ELSE IF lineno > e1.firstVisible + Rows - 1
             THEN [e1 EXCEPT !.firstVisible = lineno - (Rows - 1)]
             ELSE e1))

\* Editor.Cursor: (row, col)
Cursor(e) == <<getLineNumberFromLine(e, e.cursor.line) - 1, e.cursor.x>>

RECURSIVE MoveWalkToLast(_, _, _, _)
\* the loop stopping on the last line for any row it cannot reach
MoveWalkToLast(e, i, idx, row) ==
    IF i = row \/ idx = Len(e.start) THEN [idx |-> idx, fatal |-> FALSE]
    ELSE MoveWalkToLast(e, i + 1, idx + 1, row)

RECURSIVE MoveWalk(_, _, _, _)
\* the loop of MoveCursor: i counts up from 0 until it equals row
MoveWalk(e, i, idx, row) ==
    IF i = row THEN [idx |-> idx, fatal |-> FALSE]
    ELSE IF idx = Len(e.start)
         THEN IF row < 0 THEN [idx |-> idx, fatal |-> FALSE]
              ELSE [idx |-> idx, fatal |-> TRUE]
         ELSE MoveWalk(e, i + 1, idx + 1, row)

\* MoveCursor taking col = -1 as any other column
MoveCursorPlainCol(e, row, col) ==
    IF ~Running(e) THEN e
    ELSE With(MoveWalk(e, 0, 1, row), LAMBDA w :
         With([e EXCEPT !.cursor.line = e.start[w.idx].id], LAMBDA e1 :
             IF w.fatal THEN Fatal(e1)
             ELSE fixPosition([e1 EXCEPT !.cursor.x = col])))

MoveCursor(e, row, col) ==
    IF ~Running(e) THEN e
    ELSE With(MoveWalk(e, 0, 1, row), LAMBDA w :
         With([e EXCEPT !.cursor.line = e.start[w.idx].id], LAMBDA e1 :
             IF w.fatal THEN Fatal(e1)
             ELSE fixPosition(IF col = -1
                              THEN [e1 EXCEPT !.cursor.x = Len(CursorValues(e1)) - 1]
                              ELSE [e1 EXCEPT !.cursor.x = col])))

---------------------------------------------------------------------------
(* Search *)

\* unicode.ToLower on the runes of the model
ToLower(r) == IF r >= 65 /\ r <= 90 THEN r + 32 ELSE r

\* the inner loop saving the parts of a candidate as soon as they match
ScanRuneEager(term, s, line, index, r) ==
    IF ToLower(term[s.ti + 1]) = ToLower(r)
    THEN [s EXCEPT !.pl = IF s.ti = 0 THEN Append(s.pl, <<line, index>>) ELSE s.pl,
                   !.ti = IF s.ti + 1 = Len(term) THEN 0 ELSE s.ti + 1,
                   !.sh = s.sh \cup {<<line, index>>}]
    ELSE [s EXCEPT !.pl = IF s.ti > 0 THEN Front(s.pl) ELSE s.pl, !.ti = 0]

\* the inner loop comparing the runes as they are
ScanRuneExact(term, s, line, index, r) ==
    With(IF term[s.ti + 1] = r
         THEN [s EXCEPT !.pl = IF s.ti = 0 THEN Append(s.pl, <<line, index>>)
                               ELSE s.pl,
                        !.ti = s.ti + 1,
                        !.pm = s.pm \cup {<<line, index>>}]
         ELSE [s EXCEPT !.pl = IF s.ti > 0 THEN Front(s.pl) ELSE s.pl,
                        !.ti = 0,
                        !.pm = {}],
         LAMBDA s1 : IF s1.ti = Len(term)
                     THEN [s1 EXCEPT !.sh = s1.sh \cup s1.pm, !.ti = 0, !.pm = {}]
                     ELSE s1)

\* One iteration of the inner loop of search() at rune r = line.values[index].
\* s: ti = searchTermIndex, pm = possibleMatches, pl = possibleLines/possibleXs
\* as one list of <<line, x>>, sh = e.searchHighlights.
ScanRune(term, s, line, index, r) ==
    With(IF ToLower(term[s.ti + 1]) = ToLower(r)
         THEN [s EXCEPT !.pl = IF s.ti = 0 THEN Append(s.pl, <<line, index>>)
                               ELSE s.pl,
                        !.ti = s.ti + 1,
                        !.pm = s.pm \cup {<<line, index>>}]
         ELSE [s EXCEPT !.pl = IF s.ti > 0 THEN Front(s.pl) ELSE s.pl,
                        !.ti = 0,
                        !.pm = {}],
         LAMBDA s1 : IF s1.ti = Len(term)
                     THEN [s1 EXCEPT !.sh = s1.sh \cup s1.pm, !.ti = 0, !.pm = {}]
                     ELSE s1)

RECURSIVE ScanLine(_, _, _, _, _)
ScanLine(term, s, line, values, index) ==
    IF index >= Len(values) THEN s
    ELSE ScanLine(term, ScanRune(term, s, line, index, At(values, index)),
                  line, values, index + 1)

RECURSIVE ScanLines(_, _, _, _)
ScanLines(term, s, lines, i) ==
    IF i > Len(lines) THEN s
    ELSE ScanLines(term, ScanLine(term, s, lines[i].id, lines[i].values, 0),
                   lines, i + 1)

\* the scan of search() over the whole document
Scan(lines, term) ==
    ScanLines(term, [ti |-> 0, pm |-> {}, pl |-> <<>>, sh |-> {}], lines, 1)

\* the end of search() with an index past the last match kept on the last match
FoundClamped(e, s, n) ==
    With([e EXCEPT !.searchHighlights = s.sh], LAMBDA e1 :
        IF n > 0
        THEN IF e1.searchIndex = -1
             THEN [e1 EXCEPT !.cursor = [line |-> s.pl[n][1], x |-> s.pl[n][2]],
                             !.searchIndex = n - 1]
             ELSE With(IF e1.searchIndex > n - 1 THEN n - 1 ELSE e1.searchIndex,
                       LAMBDA si : [e1 EXCEPT !.cursor = [line |-> s.pl[si + 1][1],
                                                          x |-> s.pl[si + 1][2]],
                                              !.searchIndex = si])
        ELSE [e1 EXCEPT !.searchIndex = 0])

\* the end of search() leaving searchIndex as it is when nothing matched
FoundKeepingIndex(e, s, n) ==
    With([e EXCEPT !.searchHighlights = s.sh], LAMBDA e1 :
        IF n > 0
        THEN IF e1.searchIndex = -1
             THEN [e1 EXCEPT !.cursor = [line |-> s.pl[n][1], x |-> s.pl[n][2]],
                             !.searchIndex = n - 1]
             ELSE With(IF e1.searchIndex > n - 1 THEN 0 ELSE e1.searchIndex,
                       LAMBDA si : [e1 EXCEPT !.cursor = [line |-> s.pl[si + 1][1],
                                                          x |-> s.pl[si + 1][2]],
                                              !.searchIndex = si])
        ELSE e1)

\* what search() does with the result s of its scan
Found(e, s, n) ==
    With([e EXCEPT !.searchHighlights = s.sh], LAMBDA e1 :
        IF n > 0
        THEN IF e1.searchIndex = -1
             THEN [e1 EXCEPT !.cursor = [line |-> s.pl[n][1], x |-> s.pl[n][2]],
                             !.searchIndex = n - 1]
             ELSE With(IF e1.searchIndex > n - 1 THEN 0 ELSE e1.searchIndex,
                       LAMBDA si : [e1 EXCEPT !.cursor = [line |-> s.pl[si + 1][1],
                                                          x |-> s.pl[si + 1][2]],
                                              !.searchIndex = si])
        ELSE [e1 EXCEPT !.searchIndex = 0])

search(e) ==
    IF ~Running(e) THEN e
    ELSE IF Len(e.searchTerm) = 0 THEN [e EXCEPT !.searchHighlights = {}]
    ELSE With(Scan(e.start, e.searchTerm), LAMBDA s : Found(e, s, Len(s.pl)))

---------------------------------------------------------------------------
(* Structural mutation *)

\* the '\n' branch of handleRune: split the cursor's line at the cursor
\* line i, of values v, split at x; new is the identity of the second half
SplitAt(e, i, v, x, new) ==
    [e EXCEPT !.start = SubSeq(e.start, 1, i - 1)
                        \o <<[id |-> e.start[i].id, values |-> Append(Slice(v, 0, x), NL)],
                              [id |-> new, values |-> Slice(v, x, Len(v))]>>
                        \o SubSeq(e.start, i + 1, Len(e.start)),
              !.cursor = [line |-> new, x |-> 0]]

SplitLine(e) == SplitAt(e, CursorIdx(e), CursorValues(e), e.cursor.x, FreshId(e))

\* the splice leaving the cursor before the rune
SpliceAtKeepingCursor(e, r, i, v, x) ==
    SetValues(e, i, Slice(v, 0, x) \o <<r>> \o Slice(v, x, Len(v)))

\* the other branch of handleRune: splice r in at the cursor
SpliceAt(e, r, i, v, x) ==
    [SetValues(e, i, Slice(v, 0, x) \o <<r>> \o Slice(v, x, Len(v)))
        EXCEPT !.cursor.x = x + 1]

SpliceRune(e, r) == SpliceAt(e, r, CursorIdx(e), CursorValues(e), e.cursor.x)

handleRune(e, r) ==
    IF ~Running(e) THEN e
    ELSE IF e.mode = SEARCH_MODE
    THEN search([e EXCEPT !.searchTerm = Append(e.searchTerm, r)])
    ELSE With(IF e.highlighted # {} THEN resetHighlight(e) ELSE e, LAMBDA e1 :
             IF CursorIdx(e1) = 0 THEN Panic(e1)
             \* values[x:] and values[:x] need 0 <= x <= len(values)
             ELSE IF e1.cursor.x < 0 \/ e1.cursor.x > Len(CursorValues(e1))
             THEN Panic(e1)
             ELSE setModified(IF r = NL THEN SplitLine(e1) ELSE SpliceRune(e1, r)))

RECURSIVE handleRunes(_, _)
\* for _, r := range rs { e.handleRune(r) }
handleRunes(e, rs) ==
    IF rs = <<>> THEN e ELSE handleRunes(handleRune(e, Head(rs)), Tail(rs))

\* the merge leaving the cursor on the line that is unlinked
MergeAtDangling(e, i, pv) ==
    [e EXCEPT !.start = SubSeq(e.start, 1, i - 2)
                        \o <<[id |-> e.start[i - 1].id,
                              values |-> Front(pv) \o e.start[i].values]>>
                        \o SubSeq(e.start, i + 1, Len(e.start)),
              !.cursor.x = Len(pv) - 1]

\* the merge leaving the cursor at the start of the predecessor
MergeAtToStart(e, i, pv) ==
    [e EXCEPT !.start = SubSeq(e.start, 1, i - 2)
                        \o <<[id |-> e.start[i - 1].id,
                              values |-> Front(pv) \o e.start[i].values]>>
                        \o SubSeq(e.start, i + 1, Len(e.start)),
              !.cursor = [line |-> e.start[i - 1].id, x |-> 0]]

\* the merge branch of deletePrevious: the cursor's line joins its predecessor
MergeAt(e, i, pv) ==
    [e EXCEPT !.start = SubSeq(e.start, 1, i - 2)
                        \o <<[id |-> e.start[i - 1].id,
                              values |-> Front(pv) \o e.start[i].values]>>
                        \o SubSeq(e.start, i + 1, Len(e.start)),
              !.cursor = [line |-> e.start[i - 1].id, x |-> Len(pv) - 1]]

MergeLine(e) == MergeAt(e, CursorIdx(e), e.start[CursorIdx(e) - 1].values)

\* deletePrevious with the cursor on line i, of values v, at x
DeleteAt(e, i, v, x) ==
    IF i = 1 /\ Len(v) = 1
    THEN fixPosition(SetValues(e, i, <<NL>>))
    ELSE IF x = 0
    THEN IF i > 1
         \* prev.values[:len-1] panics on an empty predecessor
         THEN IF Len(e.start[i - 1].values) = 0 THEN Panic(e)
              ELSE MergeLine(e)
         ELSE e
    \* values[:x-1] and values[x:] need 1 <= x <= len(values)
    ELSE IF x - 1 < 0 \/ x > Len(v) THEN Panic(e)
    ELSE [SetValues(e, i, Slice(v, 0, x - 1) \o Slice(v, x, Len(v)))
            EXCEPT !.cursor.x = x - 1]

deletePrevious(e) ==
    IF ~Running(e) THEN e
    ELSE IF CursorIdx(e) = 0 THEN Panic(e)
    ELSE DeleteAt(e, CursorIdx(e), CursorValues(e), e.cursor.x)

RECURSIVE deletePreviousN(_, _)
\* for i := 0; i < n; i++ { e.deletePrevious() }
deletePreviousN(e, n) ==
    IF n <= 0 THEN e ELSE deletePreviousN(deletePrevious(e), n - 1)

---------------------------------------------------------------------------
(* Highlight / selection *)

highlight(e, line, x) == [e EXCEPT !.highlighted = e.highlighted \cup {<<line, x>>}]

highlightLine(e) ==
    [e EXCEPT !.highlighted = e.highlighted \cup
        {<<e.cursor.line, x>> : x \in 0..(Len(CursorValues(e)) - 1)}]

highlightLineToRight(e) ==
    [e EXCEPT !.highlighted = e.highlighted \cup
        {<<e.cursor.line, x>> : x \in e.cursor.x..(Len(CursorValues(e)) - 1)}]

highlightLineToLeft(e) ==
    [e EXCEPT !.highlighted = e.highlighted \cup
        {<<e.cursor.line, x>> : x \in 0..(e.cursor.x - 1)}]

\* the highlighted offsets of one line
OffsetsOf(e, line) == {p[2] : p \in {q \in e.highlighted : q[1] = line}}

RECURSIVE SortedSeq(_)
\* sort.Ints over the keys of a line's map
SortedSeq(S) ==
    IF S = {} THEN <<>>
    ELSE With(CHOOSE a \in S : \A b \in S : a <= b,
              LAMBDA m : <<m>> \o SortedSeq(S \ {m}))

\* the highlighted <<line index, offset>> positions in document order
HighlightedPositions(e) ==
    Flatten([i \in 1..Len(e.start) |->
        With(SortedSeq(OffsetsOf(e, e.start[i].id)),
             LAMBDA xs : [k \in 1..Len(xs) |-> <<i, xs[k]>>])])

\* the runes at the positions ps; ok is FALSE when curLine.values[i] is out
\* of range
RunesAt(e, ps, ok) ==
    [ok |-> ok,
     runes |-> IF ok THEN [k \in 1..Len(ps) |-> At(e.start[ps[k][1]].values, ps[k][2])]
               ELSE <<>>]

getHighlightedRunes(e) ==
    With(HighlightedPositions(e), LAMBDA ps :
        RunesAt(e, ps, \A k \in 1..Len(ps) :
                          ps[k][2] >= 0 /\ ps[k][2] < Len(e.start[ps[k][1]].values)))

\* every position of every linked line
AllPositions(e) ==
    UNION {{<<e.start[i].id, x>> : x \in 0..(Len(e.start[i].values) - 1)} :
           i \in 1..Len(e.start)}

fnSelectAll(e) ==
    IF Len(e.start) = 1
    THEN [e EXCEPT !.highlighted = e.highlighted \cup AllPositions(e),
                   !.cursor.line = e.start[1].id]
    ELSE [e EXCEPT !.highlighted = e.highlighted \cup AllPositions(e),
                   !.cursor = [line |-> e.start[Len(e.start)].id,
                               x |-> Len(e.start[Len(e.start)].values) - 1]]

---------------------------------------------------------------------------
(* Inverse actions: the closures pushed on the undo stack, as records.     *)
(* k names the closure; row, col are its captured lineNum, curX; r its     *)
(* captured rune; n its captured len(rs); runes the highlightedRunes       *)
(* captured by fnDeleteHighlighted; nested tells whether a "single" or     *)
(* "multi" closure holds a fnDeleteHighlighted closure (nrow, ncol, runes) *)
(* as its undoDeleteHighlighted, instead of the func returning false.      *)

Inverse(k, row, col, r, n, nested, nrow, ncol, runes) ==
    [k |-> k, row |-> row, col |-> col, r |-> r, n |-> n, nested |-> nested,
     nrow |-> nrow, ncol |-> ncol, runes |-> runes]

noop == Inverse("noop", 0, 0, 0, 0, FALSE, 0, 0, <<>>)

storeUndoAction(e, fn) ==
    IF Running(e) /\ e.mode = EDIT_MODE
    THEN [e EXCEPT !.undoStack = Append(e.undoStack, fn)]
    ELSE e

\* Results of the fn... methods: the editor after the edit, and the closure.
Did(e, fn) == [e |-> e, fn |-> fn]

\* lineNum := e.getLineNumber(); curX := e.cursor.x; return func...: the
\* editor after an edit with the closure capturing where the edit left it
Capture(e, k, r, n, nested, nrow, ncol, runes) ==
    Did(e, Inverse(k, getLineNumber(e), e.cursor.x, r, n, nested, nrow, ncol, runes))

\* the greatest member of a set of integers
Greatest(S) == CHOOSE a \in S : \A b \in S : b <= a

\* the last line holding a highlight (the first line when there is none)
lastHighlightedLine(e) ==
    With({i \in 1..Len(e.start) : OffsetsOf(e, e.start[i].id) # {}},
         LAMBDA marked : IF marked = {} THEN 1 ELSE Greatest(marked))

\* the cursor moved after the last highlighted rune of line li: to the start
\* of the next line when that is past the line's runes
AfterHighlighted(e, li, lastHighlightedX) ==
    IF lastHighlightedX + 1 = Len(e.start[li].values) /\ li < Len(e.start)
    THEN [e EXCEPT !.cursor = [line |-> e.start[li + 1].id, x |-> 0]]
    ELSE [e EXCEPT !.cursor = [line |-> e.start[li].id, x |-> lastHighlightedX + 1]]

\* the deletion itself, from the editor e2 with its cursor in place
DeleteCounted(e2, highlightCount, hr) ==
    Capture(IF hr.ok THEN deletePreviousN(e2, highlightCount) ELSE Panic(e2),
            "deleteHighlighted", 0, 0, FALSE, 0, 0, hr.runes)

fnDeleteHighlighted(e) ==
    With(lastHighlightedLine(e), LAMBDA li :
    With(AfterHighlighted(e, li, Greatest(OffsetsOf(e, e.start[li].id) \cup {0})),
         LAMBDA e2 :
             DeleteCounted(e2,
                           Cardinality({p \in e.highlighted : LineIdx(e, p[1]) # 0}),
                           getHighlightedRunes(e2))))

\* the shared body of fnHandleRuneSingle / fnHandleRuneMulti
HandleRunes(e, rs, k) ==
    With(IF e.highlighted # {} THEN fnDeleteHighlighted(e) ELSE Did(e, noop),
         LAMBDA d : Capture(handleRunes(d.e, rs), k, 0, Len(rs), e.highlighted # {},
                            d.fn.row, d.fn.col, d.fn.runes))

fnHandleRuneSingle(e, r) == HandleRunes(e, <<r>>, "handleRuneSingle")

fnHandleRuneMulti(e, rs) == HandleRunes(e, rs, "handleRuneMulti")

\* fnDeleteSinglePrevious without its test for the start of the document
fnDeleteSinglePreviousAnywhere(e) ==
    IF e.cursor.x - 1 < 0
    THEN Capture(deletePrevious(e), "deleteLineBreak", 0, 0, FALSE, 0, 0, <<>>)
    ELSE IF e.cursor.x - 1 >= Len(CursorValues(e)) THEN Did(Panic(e), noop)
    ELSE Capture(deletePrevious(e), "deleteRune", At(CursorValues(e), e.cursor.x - 1),
                 0, FALSE, 0, 0, <<>>)

fnDeleteSinglePrevious(e) ==
    IF CursorIdx(e) = 1 /\ e.cursor.x = 0 THEN Did(e, noop)
    ELSE IF e.cursor.x - 1 < 0
    THEN Capture(deletePrevious(e), "deleteLineBreak", 0, 0, FALSE, 0, 0, <<>>)
    \* curRune := values[x-1] panics when x-1 is past the line
    ELSE IF e.cursor.x - 1 >= Len(CursorValues(e)) THEN Did(Panic(e), noop)
    ELSE Capture(deletePrevious(e), "deleteRune", At(CursorValues(e), e.cursor.x - 1),
                 0, FALSE, 0, 0, <<>>)

\* exchange the values of the lines at positions i and j
SwapValues(e, i, j) ==
    [e EXCEPT !.start[i].values = e.start[j].values,
              !.start[j].values = e.start[i].values]

\* the values of lines i and j exchanged, the cursor going to line j
SwapTo(e, i, j) == [SwapValues(e, i, j) EXCEPT !.cursor.line = e.start[j].id]

fnSwapDown(e) ==
    IF CursorIdx(e) < Len(e.start)
    THEN Capture(fixPosition(SwapTo(e, CursorIdx(e), CursorIdx(e) + 1)),
                 "swapDown", 0, 0, FALSE, 0, 0, <<>>)
    ELSE Did(e, noop)

fnSwapUp(e) ==
    IF CursorIdx(e) > 1
    THEN Capture(fixPosition(SwapTo(e, CursorIdx(e), CursorIdx(e) - 1)),
                 "swapUp", 0, 0, FALSE, 0, 0, <<>>)
    ELSE Did(e, noop)

\* the closure returned by fnDeleteHighlighted, invoked
RetypeHighlighted(e, row, col, runes) == handleRunes(MoveCursor(e, row, col), runes)

\* the closure returned by fnSwapDown, invoked: swap back with the predecessor
SwapBackUp(e1) ==
    IF ~Running(e1) THEN e1
    ELSE IF CursorIdx(e1) <= 1 THEN Panic(e1)
    ELSE SwapTo(e1, CursorIdx(e1), CursorIdx(e1) - 1)

UnswapDown(e, row, col) == SwapBackUp(MoveCursor(e, row, col))

\* the closure returned by fnSwapUp, invoked: swap back with the successor
SwapBackDown(e1) ==
    IF ~Running(e1) THEN e1
    ELSE IF CursorIdx(e1) >= Len(e1.start) THEN Panic(e1)
    ELSE SwapTo(e1, CursorIdx(e1), CursorIdx(e1) + 1)

UnswapUp(e, row, col) == SwapBackDown(MoveCursor(e, row, col))

\* undoDeleteHighlighted() inside a handleRune closure
InvokeNested(e, fn) ==
    IF fn.nested THEN RetypeHighlighted(e, fn.nrow, fn.ncol, fn.runes) ELSE e

\* Calling an undo stack entry: the editor afterwards, and what it returned.
Invoke(e, fn) ==
    CASE fn.k = "noop" -> [e |-> e, ret |-> FALSE]
      [] fn.k = "deleteHighlighted" ->
            [e |-> RetypeHighlighted(e, fn.row, fn.col, fn.runes), ret |-> TRUE]
      [] fn.k = "handleRuneSingle" ->
            [e |-> InvokeNested(deletePrevious(MoveCursor(e, fn.row, fn.col)), fn),
             ret |-> TRUE]
      [] fn.k = "handleRuneMulti" ->
            [e |-> InvokeNested(deletePreviousN(MoveCursor(e, fn.row, fn.col), fn.n), fn),
             ret |-> TRUE]
      [] fn.k = "deleteLineBreak" ->
            [e |-> handleRune(MoveCursor(e, fn.row, fn.col), NL), ret |-> TRUE]
      [] fn.k = "deleteRune" ->
            [e |-> handleRune(MoveCursor(e, fn.row, fn.col), fn.r), ret |-> TRUE]
      [] fn.k = "swapDown" -> [e |-> UnswapDown(e, fn.row, fn.col), ret |-> TRUE]
      [] fn.k = "swapUp" -> [e |-> UnswapUp(e, fn.row, fn.col), ret |-> TRUE]

---------------------------------------------------------------------------
(* Load and save *)

RECURSIVE SplitRunes(_, _)
\* the loop of WriteText: every line allocated so far, the last is currentLine
SplitRunes(ls, runes) ==
    IF runes = <<>> THEN ls
    ELSE With(Append(Front(ls), Append(Last(ls), Head(runes))), LAMBDA ls1 :
             SplitRunes(IF Head(runes) = NL THEN Append(ls1, <<>>) ELSE ls1,
                        Tail(runes)))

\* "ensure the final line ends with '\n'"
Terminated(ls, cur) ==
    IF Len(cur) > 0 /\ Last(cur) # NL THEN Append(Front(ls), Append(cur, NL)) ELSE ls

\* "remove dangling line": currentLine.prev.next = nil
Undangled(ls1) == IF Len(ls1) > 1 THEN Front(ls1) ELSE ls1

\* the lines WriteText leaves linked from e.start
LoadLines(text) ==
    With(IF Len(text) = 0 THEN <<<<NL>>>> ELSE SplitRunes(<<<<>>>>, DecodeText(text)),
         LAMBDA ls : Undangled(Terminated(ls, Last(ls))))

\* the lines linked with the undo stack left as it is
LinkedKeepingUndo(e, ls) ==
    [e EXCEPT !.searchTerm = <<>>,
              !.highlighted = {},
              !.start = [i \in 1..Len(ls) |-> [id |-> i, values |-> ls[i]]],
              !.cursor = [line |-> 1, x |-> 0]]

\* the lines ls linked from e.start, the cursor on the first
Linked(e, ls) ==
    [e EXCEPT !.undoStack = <<>>,
              !.searchTerm = <<>>,
              !.highlighted = {},
              !.start = [i \in 1..Len(ls) |-> [id |-> i, values |-> ls[i]]],
              !.cursor = [line |-> 1, x |-> 0]]

WriteText(e, text) == Linked(editMode(e), LoadLines(text))

Load(e) == WriteText(e, e.content)

Save(e) == [e EXCEPT !.content = ReadText(e), !.modified = FALSE]

\* the Editor struct before NewEditor calls Load
Zero == [start |-> <<>>, cursor |-> [line |-> 0, x |-> 0], highlighted |-> {},
         searchHighlights |-> {}, undoStack |-> <<>>, mode |-> EDIT_MODE,
         searchTerm |-> <<>>, searchIndex |-> 0, modified |-> FALSE,
         firstVisible |-> 0, content |-> <<>>, halted |-> "run"]

NewEditor(text) == Load([Zero EXCEPT !.content = text])

---------------------------------------------------------------------------
(* Requests: the branches of Editor.Update, one key event each *)

\* the pop taking the entry below the top with it
PoppedWithNext(e) ==
    [e EXCEPT !.undoStack = SubSeq(e.undoStack, 1, Len(e.undoStack) - 2)]

\* e.undoStack = e.undoStack[:len(e.undoStack)-1]
Popped(e) == [e EXCEPT !.undoStack = Front(e.undoStack)]

RECURSIVE UndoLoopAll(_, _)
\* the loop without its break: every entry is invoked and popped
UndoLoopAll(e, returned) ==
    IF ~Running(e) \/ Len(e.undoStack) = 0 THEN [e |-> e, rets |-> returned]
    ELSE With(Invoke(e, Last(e.undoStack)), LAMBDA r :
             IF ~Running(r.e) THEN [e |-> r.e, rets |-> returned]
             ELSE UndoLoopAll(Popped(r.e), Append(returned, r.ret)))

RECURSIVE UndoLoop(_, _)
\* for len(e.undoStack) > 0 { notNoop := top(); pop; if notNoop { break } }
\* with the values the invoked entries returned, in order
UndoLoop(e, returned) ==
    IF ~Running(e) \/ Len(e.undoStack) = 0 THEN [e |-> e, rets |-> returned]
    ELSE With(Invoke(e, Last(e.undoStack)), LAMBDA r :
             IF ~Running(r.e) THEN [e |-> r.e, rets |-> returned]
             ELSE IF r.ret THEN [e |-> Popped(r.e), rets |-> Append(returned, TRUE)]
             ELSE UndoLoop(Popped(r.e), Append(returned, FALSE)))

\* Command-Z
UndoRun(e) == UndoLoop(resetHighlight(editMode(e)), <<>>)

Undo(e) == UndoRun(e).e

\* e.storeUndoAction(e.fn...()): the closure of an edit goes on the stack
Store(d) == storeUndoAction(d.e, d.fn)

\* Command-F
ToggleSearch(e) == IF e.mode = SEARCH_MODE THEN editMode(e) ELSE searchMode(e)

\* Command-A
SelectAll(e) == fnSelectAll(editMode(e))

\* Command-V with rs on the clipboard
Paste(e, rs) == setModified(Store(fnHandleRuneMulti(e, rs)))

\* Command-X
Cut(e) ==
    With(getHighlightedRunes(e), LAMBDA hr :
        IF ~hr.ok THEN Panic(e)
        ELSE IF Len(hr.runes) = 0 THEN e
        ELSE setModified(resetHighlight(Store(fnDeleteHighlighted(e)))))

\* a typed character
TypeRune(e, r) == Store(fnHandleRuneSingle(e, r))

\* Escape
Escape(e) == editMode(e)

\* Up / Down alone in search mode
PreviousMatch(e) ==
    search(IF e.searchIndex > -1 THEN [e EXCEPT !.searchIndex = e.searchIndex - 1] ELSE e)

NextMatch(e) == search([e EXCEPT !.searchIndex = e.searchIndex + 1])

\* Enter
Enter(e) ==
    IF e.mode = SEARCH_MODE THEN NextMatch(e)
    ELSE fixPosition(Store(fnHandleRuneSingle(e, NL)))

\* Tab: the next match in search mode, four spaces otherwise
Tab(e) ==
    IF e.mode = SEARCH_MODE THEN NextMatch(e)
    ELSE TypeRune(TypeRune(TypeRune(TypeRune(e, SPACE), SPACE), SPACE), SPACE)

\* Command-C: the highlighted runes are read for the clipboard
Copy(e) ==
    IF e.highlighted = {} THEN e
    ELSE IF ~getHighlightedRunes(e).ok THEN Panic(e)
    ELSE e

\* Backspace
Backspace(e) ==
    IF e.mode = SEARCH_MODE
    THEN search([e EXCEPT !.searchTerm = IF Len(e.searchTerm) > 0
                                         THEN Front(e.searchTerm) ELSE e.searchTerm])
    ELSE setModified(resetHighlight(Store(IF e.highlighted # {}
                                          THEN fnDeleteHighlighted(e)
                                          ELSE fnDeleteSinglePrevious(e))))

\* the start of the movement branch: leave search mode, drop the selection
\* unless Shift is held
Moving(e, shift) == IF shift THEN editMode(e) ELSE resetHighlight(editMode(e))

\* the boundary characters of word movement
emptyTypes == {SPACE, 46, 44}

\* End, Command-Right: to the last offset, highlighting what is passed
ToLineEnd(e, shift) ==
    With(Len(CursorValues(e)) - 1, LAMBDA last :
        IF e.cursor.x < last
        THEN [e EXCEPT !.cursor.x = last,
                       !.highlighted = IF shift
                                       THEN e.highlighted \cup
                                            {<<e.cursor.line, k>> :
                                                k \in e.cursor.x..(last - 1)}
                                       ELSE e.highlighted]
        ELSE e)

\* Home, Command-Left: to offset 0, highlighting what is passed
ToLineStart(e, shift) ==
    IF e.cursor.x > 0
    THEN [e EXCEPT !.cursor.x = 0,
                   !.highlighted = IF shift
                                   THEN e.highlighted \cup
                                        {<<e.cursor.line, k>> : k \in 0..(e.cursor.x - 1)}
                                   ELSE e.highlighted]
    ELSE e

End(e, shift) == ToLineEnd(Moving(e, shift), shift)

Home(e, shift) == ToLineStart(Moving(e, shift), shift)

RECURSIVE PageWalk(_, _, _)
\* the loops of page down (dir = 1) and page up (dir = -1)
PageWalk(e, dir, rows) ==
    IF rows > 0 /\ CursorIdx(e) + dir >= 1 /\ CursorIdx(e) + dir <= Len(e.start)
    THEN PageWalk([e EXCEPT !.cursor.line = e.start[CursorIdx(e) + dir].id,
                            !.firstVisible = e.firstVisible + dir],
                  dir, rows - 1)
    ELSE e

PageDown(e, shift) == fixPosition(PageWalk(Moving(e, shift), 1, Rows))

PageUp(e, shift) == fixPosition(PageWalk(Moving(e, shift), -1, Rows))

Mark(e, shift) == IF shift THEN highlight(e, e.cursor.line, e.cursor.x) ELSE e

RECURSIVE WordRightLoop(_, _)
WordRightLoop(e, shift) ==
    IF e.cursor.x < Len(CursorValues(e)) - 2
    THEN With([Mark(e, shift) EXCEPT !.cursor.x = e.cursor.x + 1], LAMBDA e2 :
             IF e2.cursor.x < 0 THEN Panic(e2)
             ELSE IF At(CursorValues(e2), e2.cursor.x) \in emptyTypes THEN e2
             ELSE WordRightLoop(Mark(e2, shift), shift))
    ELSE e

RECURSIVE WordLeftFirst(_, _)
\* "find the next non-empty"
WordLeftFirst(e, shift) ==
    IF e.cursor.x > 0
    THEN With(Mark([e EXCEPT !.cursor.x = e.cursor.x - 1], shift), LAMBDA e1 :
             IF e1.cursor.x >= Len(CursorValues(e1)) THEN Panic(e1)
             ELSE IF At(CursorValues(e1), e1.cursor.x) \notin emptyTypes THEN e1
             ELSE WordLeftFirst(e1, shift))
    ELSE e

RECURSIVE WordLeftSecond(_, _)
\* "find the next empty"
WordLeftSecond(e, shift) ==
    IF Running(e) /\ e.cursor.x > 0
    THEN IF e.cursor.x - 1 >= Len(CursorValues(e)) THEN Panic(e)
         ELSE IF At(CursorValues(e), e.cursor.x - 1) \notin emptyTypes
         THEN WordLeftSecond(Mark([Mark(e, shift) EXCEPT !.cursor.x = e.cursor.x - 1],
                                  shift),
                             shift)
         ELSE e
    ELSE e

\* Right alone / with Shift
Right(e, shift) ==
    With(Moving(e, shift), LAMBDA m :
    With(Len(CursorValues(m)) - 1, LAMBDA last :
        IF m.cursor.x < last
        THEN [Mark(m, shift) EXCEPT !.cursor.x = m.cursor.x + 1]
        ELSE IF CursorIdx(m) < Len(m.start)
        THEN [(IF shift THEN highlight(m, m.cursor.line, last) ELSE m)
                 EXCEPT !.cursor = [line |-> m.start[CursorIdx(m) + 1].id, x |-> 0]]
        ELSE m))

\* Left alone / with Shift
Left(e, shift) ==
    With(Moving(e, shift), LAMBDA m :
    With(CursorIdx(m), LAMBDA i :
        IF m.cursor.x > 0
        THEN Mark([m EXCEPT !.cursor.x = m.cursor.x - 1], shift)
        ELSE IF i > 1
        THEN Mark([m EXCEPT !.cursor = [line |-> m.start[i - 1].id,
                                        x |-> Len(m.start[i - 1].values) - 1]], shift)
        ELSE m))

\* Option-Right, Option-Left
WordRight(e, shift) == WordRightLoop(Moving(e, shift), shift)

WordLeft(e, shift) == WordLeftSecond(WordLeftFirst(Moving(e, shift), shift), shift)

\* Command-Right, Command-Left
LineEnd(e, shift) == ToLineEnd(Moving(e, shift), shift)

LineStart(e, shift) == ToLineStart(Moving(e, shift), shift)

\* Up alone / with Shift
\* if shift { e.highlightLineToLeft() }, and the like
MarkLeft(e, shift) == IF shift THEN highlightLineToLeft(e) ELSE e

MarkRight(e, shift) == IF shift THEN highlightLineToRight(e) ELSE e

MarkLine(e, shift) == IF shift THEN highlightLine(e) ELSE e

Up(e, shift) ==
    With(Moving(e, shift), LAMBDA m :
        IF CursorIdx(m) > 1
        THEN fixPosition(MarkRight([MarkLeft(m, shift) EXCEPT
                                       !.cursor.line = m.start[CursorIdx(m) - 1].id],
                                   shift))
        ELSE fixPosition([MarkLeft(m, shift) EXCEPT !.cursor.x = 0]))

\* Down alone / with Shift
Down(e, shift) ==
    With(Moving(e, shift), LAMBDA m :
        IF CursorIdx(m) < Len(m.start)
        THEN MarkLeft(fixPosition([MarkRight(m, shift) EXCEPT
                                      !.cursor.line = m.start[CursorIdx(m) + 1].id]),
                      shift)
        ELSE m)

RECURSIVE DocStartLoop(_, _)
DocStartLoop(e, shift) ==
    IF CursorIdx(e) > 1
    THEN DocStartLoop(MarkRight([MarkLine(e, shift) EXCEPT
                                    !.cursor = [line |-> e.start[CursorIdx(e) - 1].id,
                                                x |-> 0]],
                                shift),
                      shift)
    ELSE e

\* Command-Up
DocStart(e, shift) ==
    fixPosition(DocStartLoop(MarkLeft(Moving(e, shift), shift), shift))

RECURSIVE DocEndLoop(_, _)
DocEndLoop(e, shift) ==
    IF CursorIdx(e) < Len(e.start)
    THEN DocEndLoop(MarkLeft([MarkRight(e, shift) EXCEPT
                                 !.cursor.line = e.start[CursorIdx(e) + 1].id],
                             shift),
                    shift)
    ELSE e

\* Command-Down
\* e.cursor.x = len(e.cursor.line.values) - 1
ToLastOffset(e) == [e EXCEPT !.cursor.x = Len(CursorValues(e)) - 1]

DocEnd(e, shift) ==
    fixPosition(ToLastOffset(MarkRight(DocEndLoop(Moving(e, shift), shift), shift)))

\* Option-Up (with or without Shift)
SwapUp(e, shift) == Store(fnSwapUp(Moving(e, shift)))

\* Option-Down (without Shift)
SwapDown(e) == Store(fnSwapDown(Moving(e, FALSE)))

---------------------------------------------------------------------------
(* Steps.  Line identities only matter up to renaming (the code compares    *)
(* pointers for equality and nothing else), so after each request the      *)
(* linked lines are renamed 1..n in list order.  A line that was unlinked  *)
(* and that only a highlight map still holds can never be looked up again  *)
(* (lookups walk from e.start); all that the code can see of such entries  *)
(* is that the map is not empty, so they are kept as the one entry <<0,0>>.*)

Renaming(e) ==
    [id \in {e.start[i].id : i \in 1..Len(e.start)}
             \cup {p[1] : p \in e.highlighted \cup e.searchHighlights}
             \cup {e.cursor.line} |->
        IF LineIdx(e, id) # 0 THEN LineIdx(e, id)
        ELSE IF id = e.cursor.line THEN Len(e.start) + 1
        ELSE 0]

RenamedMarks(f, marks) ==
    {IF f[p[1]] = 0 THEN <<0, 0>> ELSE <<f[p[1]], p[2]>> : p \in marks}

RenamedBy(e, f) ==
    [e EXCEPT !.start = [i \in 1..Len(e.start) |-> [id |-> i, values |-> e.start[i].values]],
              !.cursor.line = f[e.cursor.line],
              !.highlighted = RenamedMarks(f, e.highlighted),
              !.searchHighlights = RenamedMarks(f, e.searchHighlights)]

Renamed(e) == RenamedBy(e, Renaming(e))

\* the values of the linked lines, in order
LineValues(e) == [i \in 1..Len(e.start) |-> e.start[i].values]

\* the editor n is the next state
Becomes(n) ==
    /\ start' = n.start
    /\ cursor' = n.cursor
    /\ highlighted' = n.highlighted
    /\ searchHighlights' = n.searchHighlights
    /\ undoStack' = n.undoStack
    /\ mode' = n.mode
    /\ searchTerm' = n.searchTerm
    /\ searchIndex' = n.searchIndex
    /\ modified' = n.modified
    /\ firstVisible' = n.firstVisible
    /\ content' = n.content
    /\ halted' = n.halted

Install(e) == Becomes(Renamed(e))

\* a request, recorded by its kind
Step(kind, e) ==
    /\ Install(e)
    /\ req' = kind
    /\ arg' = <<>>
    /\ rets' = <<>>

\* a loading request, recorded with the text it was given
Loaded(kind, text, e) ==
    /\ Install(e)
    /\ req' = kind
    /\ arg' = text
    /\ rets' = <<>>

InitWith(e, kind, text) ==
    /\ start = e.start
    /\ cursor = e.cursor
    /\ highlighted = e.highlighted
    /\ searchHighlights = e.searchHighlights
    /\ undoStack = e.undoStack
    /\ mode = e.mode
    /\ searchTerm = e.searchTerm
    /\ searchIndex = e.searchIndex
    /\ modified = e.modified
    /\ firstVisible = e.firstVisible
    /\ content = e.content
    /\ halted = e.halted
    /\ req = kind
    /\ arg = text
    /\ rets = <<>>

---------------------------------------------------------------------------
(* Loading: the content provider, Load, WriteText and Save *)

\* the bytes of the model: 'a', '\n' and a byte that is no UTF-8
TextBytes == {97, 10, 255}

Texts == SeqsUpTo(TextBytes, MaxText)

CallLoad ==
    /\ halted = "run"
    /\ Loaded("Load", content, Load(E))

CallWriteText ==
    \E d \in Texts :
        /\ halted = "run"
        /\ Loaded("WriteText", d, WriteText(E, d))

\* Save is refused once the text would no longer be one the provider is
\* modelled to hold
KeySave ==
    /\ halted = "run"
    /\ Len(ReadText(E)) <= MaxText
    /\ Step("save", Save(E))

InitLoad == \E d \in Texts : InitWith(NewEditor(d), "Load", d)

NextLoad == CallLoad \/ CallWriteText \/ KeySave

SpecLoad == InitLoad /\ [][NextLoad]_vars

\* a text of ASCII characters (every byte is one rune)
IsText(d) == \A i \in 1..Len(d) : d[i] < 128

\* what the round trip is said to give for the text d
RoundTrip(d) ==
    IF d = <<>> THEN <<NL>>
    ELSE IF Last(d) = NL THEN d
    ELSE Append(d, NL)

\* C1: after WriteText(d) (or a Load of content d), ReadText() is d when d
\* ends with a newline, d plus one newline when d is non-empty and does not,
\* and "\n" when d is empty.
C1_RoundTrip ==
    (req \in {"Load", "WriteText"} /\ IsText(arg)) => ReadText(E) = RoundTrip(arg)

\* what the code does keep: the text up to and including its last newline
\* (everything, with a newline added, when it holds no newline)
C1_LoadedPrefix ==
    (req \in {"Load", "WriteText"} /\ IsText(arg)) =>
        LET d == arg
            nls == {i \in 1..Len(d) : d[i] = NL}
        IN  ReadText(E) = IF d = <<>> THEN <<NL>>
                          ELSE IF nls = {} THEN Append(d, NL)
                          ELSE SubSeq(d, 1, CHOOSE i \in nls : \A j \in nls : j <= i)

---------------------------------------------------------------------------
(* Editing: key events in edit mode on a loaded document *)

\* the characters typed: 'b'
TypedRunes == {98}

\* what the clipboard may hold when Command-V is pressed
Clips == SeqsUpTo({98, NL}, MaxPaste)

DocLen == Len(getAllRunes(E))

\* the request is handled: the process runs and the model's bounds admit it
CanStore == halted = "run" /\ Len(undoStack) < MaxUndo

CanInsert(n) == CanStore /\ DocLen + n <= MaxDoc

KeyRune ==
    \E r \in TypedRunes :
        /\ CanInsert(1)
        /\ Step("type", TypeRune(E, r))

KeyEnter ==
    /\ CanInsert(1)
    /\ Step("enter", Enter(E))

KeyPaste ==
    \E rs \in Clips :
        /\ CanInsert(Len(rs))
        /\ Step("paste", Paste(E, rs))

KeyBackspace ==
    /\ CanStore
    /\ Step("backspace", Backspace(E))

KeyCut ==
    /\ CanStore
    /\ Step("cut", Cut(E))

KeySwapUp ==
    \E shift \in BOOLEAN :
        /\ CanStore
        /\ Step("swapUp", SwapUp(E, shift))

KeySwapDown ==
    /\ CanStore
    /\ Step("swapDown", SwapDown(E))

\* an undo may leave more text than the request it undoes found (the retyped
\* selection); it is taken while the result respects the bound on the text
KeyUndo ==
    LET u == UndoRun(E)
    IN  /\ halted = "run"
        /\ Len(getAllRunes(u.e)) <= MaxDoc
        /\ Install(u.e)
        /\ req' = "undo"
        /\ arg' = <<>>
        /\ rets' = u.rets

KeySelectAll ==
    /\ halted = "run"
    /\ Step("selectAll", SelectAll(E))

\* the movement keys: arrows alone, with Option (by word) and with Command
\* (to the line's or the document's end), Home, End, Page Up and Page Down
MoveKeys == {"right", "left", "up", "down", "home", "end", "pageup", "pagedown",
             "wordright", "wordleft", "lineend", "linestart", "docstart", "docend"}

\* the switch of the movement branch of Update
MoveKey(e, key, shift) ==
    CASE key = "right" -> Right(e, shift)
      [] key = "left" -> Left(e, shift)
      [] key = "up" -> Up(e, shift)
      [] key = "down" -> Down(e, shift)
      [] key = "home" -> Home(e, shift)
      [] key = "end" -> End(e, shift)
      [] key = "pageup" -> PageUp(e, shift)
      [] key = "pagedown" -> PageDown(e, shift)
      [] key = "wordright" -> WordRight(e, shift)
      [] key = "wordleft" -> WordLeft(e, shift)
      [] key = "lineend" -> LineEnd(e, shift)
      [] key = "linestart" -> LineStart(e, shift)
      [] key = "docstart" -> DocStart(e, shift)
      [] key = "docend" -> DocEnd(e, shift)

\* the movement keys of the editing specification
EditKeys == {"right", "left", "up", "down", "docstart", "docend"}

KeyMove ==
    \E key \in EditKeys, shift \in BOOLEAN :
        /\ halted = "run"
        /\ Step("move", MoveKey(E, key, shift))

\* the documents the editor starts from: texts of ASCII lines
InitTexts == {t \in Texts : IsText(t) /\ (t = <<>> \/ Last(t) = NL)}

Init == \E d \in InitTexts : InitWith(NewEditor(d), "Load", <<>>)

Next ==
    \/ KeyRune \/ KeyEnter \/ KeyPaste \/ KeyBackspace \/ KeyCut
    \/ KeySwapUp \/ KeySwapDown \/ KeyUndo \/ KeySelectAll \/ KeyMove

Spec == Init /\ [][Next]_vars

---------------------------------------------------------------------------
(* Deleting: Backspace, cut, movement and selection on a loaded document *)

\* the number of delete requests followed
MaxDeletes == 2

DeleteBackspace ==
    /\ halted = "run"
    /\ Len(undoStack) < MaxDeletes
    /\ Step("backspace", Backspace(E))

DeleteCut ==
    /\ halted = "run"
    /\ Len(undoStack) < MaxDeletes
    /\ Step("cut", Cut(E))

NextDelete == DeleteBackspace \/ DeleteCut \/ KeySelectAll \/ KeyMove

SpecDelete == Init /\ [][NextDelete]_vars

\* C2: no sequence of delete requests, interleaved with cursor movements and
\* selection extension, makes the document empty: the head line has length
\* >= 1 and ReadText() contains a newline.
C2_NonEmpty ==
    halted = "run" =>
        /\ Len(start[1].values) >= 1
        /\ \E i \in 1..Len(ReadText(E)) : ReadText(E)[i] = NL

---------------------------------------------------------------------------
(* The inverse laws, stated on what a request followed by one undo request *)
(* makes of the present state.                                             *)

\* e1 runs and shows the text and the cursor (line index, offset) of e0
Restored(e0, e1) ==
    /\ Running(e1)
    /\ ReadText(e1) = ReadText(e0)
    /\ Cursor(e1) = Cursor(e0)

NoSelection == halted = "run" /\ mode = EDIT_MODE /\ highlighted = {}

\* C3: with no selection, an insert by one request (a typed rune, Enter, a
\* paste of N >= 1 runes) followed by one undo request gives back the text
\* and the cursor of before the request.
C3_InsertUndo ==
    NoSelection =>
        /\ \A r \in TypedRunes : Restored(E, Undo(TypeRune(E, r)))
        /\ Restored(E, Undo(Enter(E)))
        /\ \A rs \in Clips \ {<<>>} : Restored(E, Undo(Paste(E, rs)))

\* C4: with no selection and the cursor not at (0, 0), one Backspace followed
\* by one undo request gives back the text and the cursor of before.
C4_BackspaceUndo ==
    (NoSelection /\ Cursor(E) # <<0, 0>>) => Restored(E, Undo(Backspace(E)))

\* every entry of the selection is a character of a linked line
SelectionOfCharacters ==
    /\ highlighted # {}
    /\ \A p \in highlighted :
           /\ p[1] \in 1..Len(start)
           /\ p[2] >= 0
           /\ p[2] < Len(start[p[1]].values)

\* C5: deleting a selection (Backspace or cut) followed by one undo request
\* gives back the text and the cursor of before the deletion.
C5_SelectionDeleteUndo ==
    (halted = "run" /\ mode = EDIT_MODE /\ SelectionOfCharacters) =>
        /\ Restored(E, Undo(Backspace(E)))
        /\ Restored(E, Undo(Cut(E)))

\* the lines ls with lines i and j exchanged
Exchanged(ls, i, j) ==
    [k \in 1..Len(ls) |-> IF k = i THEN ls[j] ELSE IF k = j THEN ls[i] ELSE ls[k]]

\* the swap s of lines i and j of the present state moved the contents and
\* the cursor with them, and one undo request restores text and cursor
SwappedAndBack(s, i, j) ==
    /\ Running(s)
    /\ LineValues(s) = Exchanged(LineValues(E), i, j)
    /\ Cursor(s) = <<j - 1, cursor.x>>
    /\ Restored(E, Undo(s))

\* C6: swap-line-up (swap-line-down) on a line with a predecessor (successor)
\* exchanges the two lines' contents, the cursor follows its line's contents
\* at the same offset, and one undo request swaps them back and restores the
\* text and the cursor.
C6_SwapUndo ==
    (halted = "run" /\ mode = EDIT_MODE) =>
        LET i == CursorIdx(E)
        IN  /\ i > 1 => SwappedAndBack(SwapUp(E, FALSE), i, i - 1)
            /\ i < Len(start) => SwappedAndBack(SwapDown(E), i, i + 1)

---------------------------------------------------------------------------
(* Undoing: edits and structural no-ops stacked, then undone *)

\* the depth of the undo stack followed
MaxStack == 3

StackRoom == halted = "run" /\ Len(undoStack) < MaxStack

StackRune ==
    \E r \in TypedRunes :
        /\ StackRoom
        /\ DocLen + 1 <= MaxDoc
        /\ Step("type", TypeRune(E, r))

StackEnter ==
    /\ StackRoom
    /\ DocLen + 1 <= MaxDoc
    /\ Step("enter", Enter(E))

StackBackspace ==
    /\ StackRoom
    /\ Step("backspace", Backspace(E))

StackSwapUp ==
    /\ StackRoom
    /\ Step("swapUp", SwapUp(E, FALSE))

StackSwapDown ==
    /\ StackRoom
    /\ Step("swapDown", SwapDown(E))

StackMove ==
    \E key \in {"left", "right", "up", "down"} :
        /\ halted = "run"
        /\ Step("move", MoveKey(E, key, FALSE))

NextUndo ==
    \/ StackRune \/ StackEnter \/ StackBackspace \/ StackSwapUp \/ StackSwapDown
    \/ StackMove \/ KeyUndo

SpecUndo == Init /\ [][NextUndo]_vars

\* C7: one undo request invokes entries from the top and pops each invoked
\* entry; it stops right after the first entry that returns true; the no-op
\* entries above that entry are popped in the same request, the entries below
\* it are untouched, and the loop ends when the stack is empty.
C7_UndoPops ==
    [][(req' = "undo" /\ halted' = "run") =>
          LET n == Len(rets')
          IN  /\ n <= Len(undoStack)
              /\ undoStack' = SubSeq(undoStack, 1, Len(undoStack) - n)
              /\ \A i \in 1..(n - 1) : rets'[i] = FALSE
              /\ (n = 0 \/ rets'[n] = FALSE) => undoStack' = <<>>]_vars

\* an undo request popped a no-op entry and the entry below it that did work,
\* and left the entry below that one
C7_Witness ==
    /\ req = "undo"
    /\ halted = "run"
    /\ rets = <<FALSE, TRUE>>
    /\ Len(undoStack) = 1

---------------------------------------------------------------------------
(* Searching: the search mode on a loaded document *)

\* the length of the texts searched
MaxSearchText == 5

\* the value searchIndex is followed to
MaxIndex == 3

\* the letters of the documents searched and of the terms: 'a', 'A', 'b'
SearchRunes == {97, 65, 98}

SearchTexts ==
    {t \in SeqsUpTo(SearchRunes \cup {NL}, MaxSearchText) : t = <<>> \/ Last(t) = NL}

KeyToggleSearch ==
    /\ halted = "run"
    /\ Step("toggleSearch", ToggleSearch(E))

KeyEscape ==
    /\ halted = "run"
    /\ Step("escape", Escape(E))

SearchRune ==
    \E r \in SearchRunes :
        /\ halted = "run"
        /\ mode = SEARCH_MODE
        /\ Len(searchTerm) < MaxTerm
        /\ Step("searchType", TypeRune(E, r))

SearchBackspace ==
    /\ halted = "run"
    /\ mode = SEARCH_MODE
    /\ Step("searchBackspace", Backspace(E))

\* with an empty term nothing resets searchIndex; it is followed up to MaxIndex
SearchNext ==
    /\ halted = "run"
    /\ mode = SEARCH_MODE
    /\ searchIndex < MaxIndex
    /\ Step("searchNext", NextMatch(E))

SearchPrevious ==
    /\ halted = "run"
    /\ mode = SEARCH_MODE
    /\ Step("searchPrevious", PreviousMatch(E))

InitSearch == \E d \in SearchTexts : InitWith(NewEditor(d), "Load", <<>>)

NextSearch ==
    \/ KeyToggleSearch \/ KeyEscape \/ SearchRune \/ SearchBackspace
    \/ SearchNext \/ SearchPrevious

SpecSearch == InitSearch /\ [][NextSearch]_vars

Searching == halted = "run" /\ mode = SEARCH_MODE /\ searchTerm # <<>>

\* the 0-based place of <<line, x>> in the concatenated text
FlatPos(lines, p) ==
    LET i == CHOOSE k \in 1..Len(lines) : lines[k].id = p[1]
    IN  Len(Flatten([j \in 1..(i - 1) |-> lines[j].values])) + p[2]

\* the term stands at place k of the text, case-insensitively
OccursAt(text, term, k) ==
    /\ k + Len(term) <= Len(text)
    /\ \A j \in 1..Len(term) : ToLower(text[k + j]) = ToLower(term[j])

RECURSIVE RefAnchors(_, _, _)
\* the reference scan: the leftmost occurrence at or after `from`, then on
\* from the end of that occurrence
RefAnchors(text, term, from) ==
    LET found == {k \in from..Len(text) : OccursAt(text, term, k)}
    IN  IF found = {} THEN <<>>
        ELSE LET k == CHOOSE a \in found : \A b \in found : a <= b
             IN  <<k>> \o RefAnchors(text, term, k + Len(term))

\* the anchors search() computes for the lines and the term, as places of
\* the text
AnchorsOf(lines, term) ==
    LET pl == Scan(lines, term).pl
    IN  [i \in 1..Len(pl) |-> FlatPos(lines, pl[i])]

PlacesOf(lines, marks) == {FlatPos(lines, p) : p \in marks}

\* C8: for a non-empty term, the match anchors of search() are the start
\* positions, in document order, of the occurrences a reference
\* case-insensitive left-to-right scan finds, resuming after each occurrence.
C8_SearchComplete ==
    Searching => AnchorsOf(start, searchTerm) = RefAnchors(getAllRunes(E), searchTerm, 0)

\* C9: after search() with a non-empty term, every highlighted position is on
\* a linked line and belongs to a complete occurrence of the term, all
\* len(term) positions of every occurrence the scan completes are highlighted,
\* and nothing else (no position of an abandoned candidate) is.
C9_HighlightSound ==
    Searching =>
        LET text == getAllRunes(E)
            n == Len(searchTerm)
            anchors == AnchorsOf(start, searchTerm)
            completed == {k \in {anchors[i] : i \in 1..Len(anchors)} :
                             OccursAt(text, searchTerm, k)}
        IN  /\ \A p \in searchHighlights :
                   /\ p[1] \in 1..Len(start)
                   /\ p[2] >= 0 /\ p[2] < Len(start[p[1]].values)
                   /\ \E k \in 0..Len(text) :
                          /\ OccursAt(text, searchTerm, k)
                          /\ k <= FlatPos(start, p)
                          /\ FlatPos(start, p) < k + n
            /\ PlacesOf(start, searchHighlights) = {k + j : k \in completed, j \in 0..(n - 1)}

\* the term "ab" was searched in the lines "a", "ab": the candidate on the
\* first line was abandoned and the occurrence on the second is highlighted
C9_Witness ==
    /\ Searching
    /\ req = "searchType"
    /\ searchTerm = <<97, 98>>
    /\ LineValues(E) = <<<<97, NL>>, <<97, 98, NL>>>>
    /\ searchHighlights = {<<2, 0>>, <<2, 1>>}

OtherCase(r) ==
    IF r >= 65 /\ r <= 90 THEN r + 32
    ELSE IF r >= 97 /\ r <= 122 THEN r - 32
    ELSE r

\* the runes rs with those at the places S replaced by their other-case variant
Recased(rs, S) == [i \in 1..Len(rs) |-> IF i \in S THEN OtherCase(rs[i]) ELSE rs[i]]

\* the lines with the characters at S (pairs of line index and 1-based
\* offset) replaced by their other-case variant
RecasedLines(lines, S) ==
    [i \in 1..Len(lines) |->
        [id |-> lines[i].id,
         values |-> [x \in 1..Len(lines[i].values) |->
                        IF <<i, x>> \in S THEN OtherCase(lines[i].values[x])
                        ELSE lines[i].values[x]]]]

\* where the lines hold a character that has an other-case variant
LetterPlaces(lines) ==
    {p \in UNION {{<<i, x>> : x \in 1..Len(lines[i].values)} : i \in 1..Len(lines)} :
        OtherCase(lines[p[1]].values[p[2]]) # lines[p[1]].values[p[2]]}

\* C10: replacing characters of the term or of the document by their
\* other-case variants leaves the match anchors and the highlighted positions
\* unchanged.
C10_CaseInsensitive ==
    Searching =>
        LET anchors == Scan(start, searchTerm).pl
        IN  \A S \in SUBSET LetterPlaces(start), T \in SUBSET (1..Len(searchTerm)) :
                LET s == Scan(RecasedLines(start, S), Recased(searchTerm, T))
                IN  /\ s.pl = anchors
                    /\ s.sh = searchHighlights

\* the term "Ab" was searched in the line "ab" and matched it
C10_Witness ==
    /\ Searching
    /\ req = "searchType"
    /\ searchTerm = <<65, 98>>
    /\ LineValues(E) = <<<<97, 98, NL>>>>
    /\ searchHighlights = {<<1, 0>>, <<1, 1>>}
    /\ cursor = [line |-> 1, x |-> 0]

---------------------------------------------------------------------------
(* Cycling through the matches *)

\* the match anchors of the present term in the present document
Matches == Scan(start, searchTerm).pl

Cycling == req \in {"searchNext", "searchPrevious"}

SearchRequests == {"searchType", "searchBackspace", "searchNext", "searchPrevious"}

\* the present term is not empty and occurs nowhere in the document
NoOccurrence ==
    /\ searchTerm # <<>>
    /\ \A k \in 0..DocLen : ~OccursAt(getAllRunes(E), searchTerm, k)

\* p is the first, in document order, of the marks
FirstOf(p, marks) ==
    /\ p \in marks
    /\ \A q \in marks : q[1] > p[1] \/ (q[1] = p[1] /\ q[2] >= p[2])

---------------------------------------------------------------------------
(* The two modes: editing and searching requests on one document *)

\* a typed character, in either mode
ModeRune ==
    \E r \in TypedRunes :
        /\ halted = "run"
        /\ mode = SEARCH_MODE => Len(searchTerm) < MaxTerm
        /\ mode = EDIT_MODE => CanInsert(1)
        /\ Step("type", TypeRune(E, r))

NextMode ==
    \/ KeyToggleSearch \/ KeyEscape \/ ModeRune \/ KeyBackspace \/ KeySelectAll
    \/ KeyMove \/ KeyUndo \/ SearchNext \/ SearchPrevious

SpecMode == Init /\ [][NextMode]_vars

\* C13: the editor is always in exactly one of Edit and Search; the toggle
\* request switches Edit to Search and Search to Edit, Escape always yields
\* Edit; right after entering Search mode the selection and the search term
\* are empty; in every state in Edit mode the match-highlight map and the
\* search term are empty.
C13_ModeMachine ==
    /\ [](/\ mode \in {EDIT_MODE, SEARCH_MODE}
          /\ mode = EDIT_MODE => (searchHighlights = {} /\ searchTerm = <<>>))
    /\ [][/\ req' = "toggleSearch" =>
                  mode' = IF mode = EDIT_MODE THEN SEARCH_MODE ELSE EDIT_MODE
          /\ req' = "escape" => mode' = EDIT_MODE
          /\ (mode = EDIT_MODE /\ mode' = SEARCH_MODE) =>
                  (highlighted' = {} /\ searchTerm' = <<>>)]_vars

\* search mode was just entered, after an edit was made: no selection, no term
C13_Witness ==
    /\ req = "toggleSearch"
    /\ mode = SEARCH_MODE
    /\ highlighted = {}
    /\ searchTerm = <<>>
    /\ undoStack # <<>>

---------------------------------------------------------------------------
(* Moving: MoveCursor calls on a loaded document *)

\* the greatest row and the greatest column given to MoveCursor
MaxRow == 3
MaxCol == 3

\* the rows and columns given to MoveCursor: in range, the -1 sentinels, other
\* negative numbers, and numbers past the document and past the line
MoveRows == (0 - 2)..MaxRow
MoveCols == (0 - 2)..MaxCol

\* a call of MoveCursor(row, col), recorded with its arguments
CallMoveCursor ==
    \E row \in MoveRows, col \in MoveCols :
        /\ halted = "run"
        /\ Loaded("MoveCursor", <<row, col>>, MoveCursor(E, row, col))

\* the scrolling keys, which leave the viewport elsewhere for the next call
KeyPage ==
    \E key \in {"pageup", "pagedown"} :
        /\ halted = "run"
        /\ Step("move", MoveKey(E, key, FALSE))

NextMove == CallMoveCursor \/ KeyPage

SpecMove == Init /\ [][NextMove]_vars

---------------------------------------------------------------------------
(* The invariants of the document and of the cursor *)

\* C14: after every completed request, every line reachable from the head
\* is non-empty and ends with the newline character.
C14_LinesTerminated ==
    halted = "run" =>
        \A i \in 1..Len(start) :
            Len(start[i].values) >= 1 /\ Last(start[i].values) = NL

\* C15: after every completed request that does not end in the fatal error,
\* 0 <= cursor.x <= len(cursor.line.values) - 1: the cursor addresses an
\* existing character of its line.
C15_CursorInLine ==
    halted = "run" =>
        /\ CursorIdx(E) # 0
        /\ cursor.x >= 0
        /\ cursor.x <= Len(CursorValues(E)) - 1

\* a MoveCursor(row, col) call returned
Moved == req = "MoveCursor" /\ halted = "run"

\* C16: MoveCursor(row, col) with a negative row places the cursor on the
\* last line, with 0 <= row < number of lines on line row; col = -1 places it
\* on the final rune (offset len-1) of that line and 0 <= col <= len-1 at
\* offset col; Cursor() afterwards returns that (row, col).
C16_MoveCursorAddressing ==
    Moved =>
        LET row == arg[1]
            col == arg[2]
            n == Len(start)
            at == Cursor(E)
            len == Len(start[at[1] + 1].values)
        IN  /\ at[1] \in 0..(n - 1)
            /\ cursor.line = start[at[1] + 1].id
            /\ row < 0 => at[1] = n - 1
            /\ (0 <= row /\ row < n) => at[1] = row
            /\ col = -1 => at[2] = len - 1
            /\ (0 <= col /\ col <= len - 1) => at[2] = col

\* MoveCursor(-2, -1) on a document of two lines whose last line holds two
\* runes: the cursor is on the final rune of the last line
C16_Witness ==
    /\ Moved
    /\ arg = <<-2, -1>>
    /\ Len(start) = 2
    /\ Len(start[2].values) = 2
    /\ Cursor(E) = <<1, 1>>

\* C17: MoveCursor with a non-negative row greater than or equal to the
\* number of lines ends in the fatal "attempted illegal move" error instead
\* of positioning the cursor (and no other call does).
C17_IllegalMoveFatal ==
    req = "MoveCursor" => (halted = "fatal" <=> arg[1] >= Len(start))

\* MoveCursor(3, 0) on a document of three lines ended in the fatal error
C17_Witness ==
    /\ req = "MoveCursor"
    /\ arg = <<3, 0>>
    /\ Len(start) = 3
    /\ halted = "fatal"

\* the line MoveCursor(row, col) addresses in a document of n lines
Addressed(row, n) == IF row < 0 THEN n - 1 ELSE row

\* C18: MoveCursor(row, col) adjusts firstVisible minimally: it is unchanged
\* when firstVisible <= row <= firstVisible + rows - 1, becomes row when
\* row < firstVisible, and becomes row - (rows - 1) when
\* row > firstVisible + rows - 1.
C18_ScrollOnMove ==
    [][(req' = "MoveCursor" /\ halted' = "run") =>
          LET row == Addressed(arg'[1], Len(start))
          IN  firstVisible' =
                  IF row < firstVisible THEN row
                  ELSE IF row > firstVisible + Rows - 1 THEN row - (Rows - 1)
                  ELSE firstVisible]_vars

\* MoveCursor(2, 0) on a document of three lines scrolled the viewport down
\* by one line, so that line 2 is its last row
C18_Witness ==
    /\ Moved
    /\ arg = <<2, 0>>
    /\ Len(start) = 3
    /\ firstVisible = 2 - (Rows - 1)
    /\ firstVisible > 0

\* C19: after every completed request that moves the cursor or edits the
\* document, the cursor's line index lies within
\* [firstVisible, firstVisible + rows - 1].
C19_CursorInViewport ==
    halted = "run" =>
        /\ getLineNumber(E) >= firstVisible
        /\ getLineNumber(E) <= firstVisible + Rows - 1

---------------------------------------------------------------------------
(* The modified flag *)

\* the document is the single line "\n", the cursor at (0, 0), nothing is
\* selected and the modified flag is false
EmptyUnmodified ==
    /\ halted = "run"
    /\ mode = EDIT_MODE
    /\ LineValues(E) = <<<<NL>>>>
    /\ Cursor(E) = <<0, 0>>
    /\ highlighted = {}
    /\ ~modified

\* C20: on the document "\n" with the cursor at (0, 0) and the modified flag
\* false, a Backspace request leaves the document equal to "\n" and the
\* modified flag false.
C20_NoopDeleteUnmodified ==
    [][(EmptyUnmodified /\ req' = "backspace") =>
          /\ halted' = "run"
          /\ start' = <<[id |-> 1, values |-> <<NL>>]>>
          /\ modified' = FALSE]_vars

---------------------------------------------------------------------------
(* Reloading: edits, a selection and a search, then Load, WriteText or Save *)

NextReload ==
    \/ ModeRune \/ KeySelectAll \/ KeyToggleSearch \/ SearchNext \/ KeyUndo
    \/ CallLoad \/ CallWriteText \/ KeySave

SpecReload == Init /\ [][NextReload]_vars

\* C21: after WriteText(text) (and therefore after Load) returns, the modified
\* flag is false whatever it was before; after Save it is false likewise.
C21_LoadClearsModified ==
    (req \in {"Load", "WriteText", "save"} /\ halted = "run") => ~modified

\* C22: after Load / WriteText the previous lines are entirely replaced by
\* those of the text, the cursor is at (line 0, offset 0), the undo stack and
\* the selection are empty, the mode is Edit and the search term and the match
\* highlights are empty; an undo request issued right after changes neither
\* the text nor the cursor.
C22_LoadReinitialises ==
    (req \in {"Load", "WriteText"} /\ halted = "run") =>
        /\ LineValues(E) = LoadLines(IF req = "Load" THEN content ELSE arg)
        /\ \A i \in 1..Len(start) : start[i].id = i
        /\ cursor = [line |-> start[1].id, x |-> 0]
        /\ Cursor(E) = <<0, 0>>
        /\ undoStack = <<>>
        /\ highlighted = {}
        /\ mode = EDIT_MODE
        /\ searchTerm = <<>>
        /\ searchHighlights = {}
        /\ Restored(E, Undo(E))

\* WriteText("a\n") was called after an edit had been made and the matches
\* had been cycled through: the session is that of a fresh document "a\n"
C22_Witness ==
    /\ req = "WriteText"
    /\ halted = "run"
    /\ arg = <<97, NL>>
    /\ modified
    /\ searchIndex = 1
    /\ LineValues(E) = <<<<97, NL>>>>
    /\ undoStack = <<>>

---------------------------------------------------------------------------
(* The selection *)

\* the editor e runs and holds the single empty line, the cursor at (0, 0)
SingleEmptyLine(e) ==
    /\ Running(e)
    /\ LineValues(e) = <<<<NL>>>>
    /\ Cursor(e) = <<0, 0>>

\* C23: for every document, select-all followed by the selection delete
\* (Backspace or cut) leaves the document exactly "\n", a single empty line,
\* with the cursor at (line 0, offset 0).
C23_SelectAllDelete ==
    halted = "run" =>
        /\ SingleEmptyLine(Backspace(SelectAll(E)))
        /\ SingleEmptyLine(Cut(SelectAll(E)))

\* the characters of the text of e at the highlighted places, by ascending
\* place in the text
HighlightedText(e) ==
    LET text == getAllRunes(e)
        places == SortedSeq({FlatPos(e.start, p) :
                                p \in {q \in e.highlighted : LineIdx(e, q[1]) # 0}})
    IN  [k \in 1..Len(places) |-> text[places[k] + 1]]

\* getHighlightedRunes() returns the runes rs
Returns(e, rs) == getHighlightedRunes(e) = [ok |-> TRUE, runes |-> rs]

\* C24: getHighlightedRunes returns the highlighted characters in document
\* order (lines from head to tail, offsets ascending within each line); after
\* highlightLine it returns the characters of the cursor's line, and after
\* select-all the whole document text returned by getAllRunes.
C24_HighlightedRunes ==
    halted = "run" =>
        /\ getHighlightedRunes(E).ok
        /\ Returns(E, HighlightedText(E))
        /\ highlighted = {} => Returns(highlightLine(E), CursorValues(E))
        /\ Returns(SelectAll(E), getAllRunes(E))

---------------------------------------------------------------------------
(* Single edits against the flat text: Backspace and typed characters at   *)
(* every cursor position of documents of up to MaxFlat runes               *)

\* the longest document edited
MaxFlat == 4

FlatTexts ==
    {t \in SeqsUpTo({97, 98, NL}, MaxFlat) : t = <<>> \/ Last(t) = NL}

InitFlat == \E d \in FlatTexts : InitWith(NewEditor(d), "Load", <<>>)

FlatRune ==
    \E r \in TypedRunes :
        /\ StackRoom
        /\ DocLen + 1 <= MaxFlat
        /\ Step("type", TypeRune(E, r))

FlatEnter ==
    /\ StackRoom
    /\ DocLen + 1 <= MaxFlat
    /\ Step("enter", Enter(E))

NextFlat == StackBackspace \/ FlatRune \/ FlatEnter \/ StackMove

SpecFlat == InitFlat /\ [][NextFlat]_vars

\* the place of the cursor of e in its text
CursorPlace(e) == FlatPos(e.start, <<e.cursor.line, e.cursor.x>>)

\* the sequence s without its k-th element
Without(s, k) == SubSeq(s, 1, k - 1) \o SubSeq(s, k + 1, Len(s))

\* the lines ls with line i joined to line i - 1, whose newline is dropped
Joined(ls, i) ==
    SubSeq(ls, 1, i - 2) \o <<Front(ls[i - 1]) \o ls[i]>> \o SubSeq(ls, i + 1, Len(ls))

Insert(e, r) == IF r = NL THEN Enter(e) ELSE TypeRune(e, r)

\* the lines ls with r spliced into line i at offset x
Spliced(ls, i, x, r) ==
    [ls EXCEPT ![i] = Slice(ls[i], 0, x) \o <<r>> \o Slice(ls[i], x, Len(ls[i]))]

\* the lines ls with line i broken at offset x
Broken(ls, i, x) ==
    SubSeq(ls, 1, i - 1)
        \o <<Append(Slice(ls[i], 0, x), NL), Slice(ls[i], x, Len(ls[i]))>>
        \o SubSeq(ls, i + 1, Len(ls))

---------------------------------------------------------------------------
(* Movement to the ends of the document *)

\* the last line of the present document and its last offset
DocumentEnd == <<Len(start) - 1, Len(start[Len(start)].values) - 1>>

\* C27: from every cursor position, Command-Up leaves the cursor at the start
\* of the document (line 0, offset 0) and Command-Down leaves it at the end of
\* the document (last line, offset len-1), also when the cursor is already on
\* the first or on the last line.
C27_DocumentEnds ==
    halted = "run" =>
        \A shift \in BOOLEAN :
            /\ Running(DocStart(E, shift))
            /\ Cursor(DocStart(E, shift)) = <<0, 0>>
            /\ Running(DocEnd(E, shift))
            /\ Cursor(DocEnd(E, shift)) = DocumentEnd

---------------------------------------------------------------------------
(* Inserting over a selection *)

\* the request t made of the present state stored one undo entry, and one
\* undo request after it gives back the present text
OneEntryUndone(t) ==
    /\ Running(t)
    /\ Len(t.undoStack) = Len(undoStack) + 1
    /\ Running(Undo(t))
    /\ ReadText(Undo(t)) = ReadText(E)
    /\ Len(Undo(t).undoStack) = Len(undoStack)

\* C28: when a rune is typed or text is pasted while a selection exists, the
\* selection is deleted and the runes inserted under a single undo entry; one
\* undo request then removes the inserted runes and re-inserts the deleted
\* selection, restoring the text of before the request.
C28_InsertOverSelection ==
    (halted = "run" /\ mode = EDIT_MODE /\ SelectionOfCharacters) =>
        /\ \A r \in TypedRunes : OneEntryUndone(TypeRune(E, r))
        /\ \A rs \in Clips \ {<<>>} : OneEntryUndone(Paste(E, rs))

---------------------------------------------------------------------------
(* The search state across the modes *)

\* C29: after every transition between Edit and Search mode, in either
\* direction, the search term is empty, the match-highlight map is empty and
\* searchIndex is 0, so that a new search session starts on its first match.
C29_SearchStateReset ==
    [][(mode' # mode /\ halted' = "run") =>
          /\ searchTerm' = <<>>
          /\ searchHighlights' = {}
          /\ searchIndex' = 0]_vars

---------------------------------------------------------------------------
(* Selecting: every movement key, with and without Shift, on a loaded      *)
(* document                                                                *)

KeySelect ==
    \E key \in MoveKeys, shift \in BOOLEAN :
        /\ halted = "run"
        /\ Step("move", MoveKey(E, key, shift))

NextSelect == KeySelect

SpecSelect == Init /\ [][NextSelect]_vars

RECURSIVE Removed(_, _, _)
\* the text without the characters at the (0-based) places, text[k + 1] being
\* the character at place k
Removed(text, places, k) ==
    IF k >= Len(text) THEN <<>>
    ELSE (IF k \in places THEN <<>> ELSE <<text[k + 1]>>) \o Removed(text, places, k + 1)

\* the least member of a set of integers
Least(S) == CHOOSE a \in S : \A b \in S : a <= b

\* C30: for any non-empty selection built by extending movements (also across
\* page up / page down or other cursor jumps made with Shift) that does not
\* cover the whole document, the text after fnDeleteHighlighted is the
\* original text with precisely the highlighted positions removed, as many
\* characters are removed as were highlighted, and the cursor is left where
\* the first removed character was.
C30_DeleteExactlySelection ==
    (halted = "run" /\ SelectionOfCharacters /\ highlighted # AllPositions(E)) =>
        LET d == fnDeleteHighlighted(E).e
            places == PlacesOf(start, highlighted)
        IN  /\ Running(d)
            /\ getAllRunes(d) = Removed(getAllRunes(E), places, 0)
            /\ Len(getAllRunes(d)) = DocLen - Cardinality(highlighted)
            /\ CursorIdx(d) # 0
            /\ CursorPlace(d) = Least(places)

---------------------------------------------------------------------------
(* Requests that have nothing to do *)

\* the request t made of the present state raised no error and left the text
\* and the cursor position as they are
Absorbed(t) ==
    /\ Running(t)
    /\ ReadText(t) = ReadText(E)
    /\ Cursor(t) = Cursor(E)

\* the undo entry the request t pushed, if any, returns false when invoked
\* and changes nothing
PushedNoop(t) ==
    Len(t.undoStack) > Len(undoStack) =>
        /\ Len(t.undoStack) = Len(undoStack) + 1
        /\ Invoke(t, Last(t.undoStack)) = [e |-> t, ret |-> FALSE]

\* C31: Backspace with no selection at (line 0, offset 0), undo with an empty
\* undo stack, swap-up on the first line and swap-down on the last line each
\* leave the document text and the cursor position unchanged and raise no
\* error; the undo entry such a request pushes (if any) returns false when
\* invoked and performs no change.
C31_StructuralNoops ==
    (halted = "run" /\ mode = EDIT_MODE) =>
        /\ (highlighted = {} /\ Cursor(E) = <<0, 0>>) =>
               (Absorbed(Backspace(E)) /\ PushedNoop(Backspace(E)))
        /\ undoStack = <<>> => (Absorbed(Undo(E)) /\ Undo(E).undoStack = <<>>)
        /\ CursorIdx(E) = 1 =>
               \A shift \in BOOLEAN :
                   Absorbed(SwapUp(E, shift)) /\ PushedNoop(SwapUp(E, shift))
        /\ CursorIdx(E) = Len(start) =>
               (Absorbed(SwapDown(E)) /\ PushedNoop(SwapDown(E)))

\* Backspace was pressed at the start of the two-line document "b\n\n": text
\* and cursor are as before and the entry on the stack is the no-op
C31_Witness ==
    /\ halted = "run"
    /\ req = "backspace"
    /\ LineValues(E) = <<<<98, NL>>, <<NL>>>>
    /\ Cursor(E) = <<0, 0>>
    /\ undoStack # <<>>
    /\ Last(undoStack) = noop

---------------------------------------------------------------------------
(* The cursor's line *)

\* C32: in every reachable state the cursor's line is reachable from the head
\* line by following next links, so getLineNumber ends with a valid 0-based
\* index.
C32_CursorLinked ==
    halted = "run" =>
        /\ \E i \in 1..Len(start) : start[i].id = cursor.line
        /\ getLineNumber(E) \in 0..(Len(start) - 1)
        /\ start[getLineNumber(E) + 1].id = cursor.line

\* a Backspace at the start of the second line merged it into the first: the
\* cursor is on the surviving line, at the place of the join
C32_Witness ==
    /\ halted = "run"
    /\ req = "backspace"
    /\ undoStack # <<>>
    /\ Last(undoStack).k = "deleteLineBreak"
    /\ LineValues(E) = <<<<97, NL>>>>
    /\ cursor = [line |-> start[1].id, x |-> 1]

---------------------------------------------------------------------------
(* Moving by word: every movement key on documents of words and spaces     *)

\* the longest document of words
MaxWords == 4

WordTexts ==
    {t \in SeqsUpTo({97, SPACE, NL}, MaxWords) : t = <<>> \/ Last(t) = NL}

InitWords == \E d \in WordTexts : InitWith(NewEditor(d), "Load", <<>>)

SpecWords == InitWords /\ [][NextSelect]_vars

RECURSIVE SkipBoundary(_, _, _)
\* the first offset at or after x that holds no boundary character, the
\* offset `last` at most
SkipBoundary(v, x, last) ==
    IF x >= last \/ At(v, x) \notin emptyTypes THEN x
    ELSE SkipBoundary(v, x + 1, last)

RECURSIVE SkipWord(_, _, _)
\* the first offset at or after x that holds a boundary character, the offset
\* `last` at most
SkipWord(v, x, last) ==
    IF x >= last \/ At(v, x) \in emptyTypes THEN x
    ELSE SkipWord(v, x + 1, last)

\* where the two-phase scan from offset x of the line v ends, the end of the
\* line being its newline (offset len-1) or the character before it
TwoPhaseEnds(v, x) ==
    {SkipWord(v, SkipBoundary(v, x, last), last) : last \in {Len(v) - 2, Len(v) - 1}}

\* C33: word-right from offset x first skips the boundary characters (space,
\* period, comma) at the cursor, then the non-boundary characters that
\* follow, and stops at the next boundary or at the end of the line; it never
\* leaves the current line and keeps 0 <= x <= len-1.
C33_WordRightTwoPhase ==
    halted = "run" =>
        \A shift \in BOOLEAN :
            LET w == WordRight(E, shift)
                v == CursorValues(E)
            IN  /\ Running(w)
                /\ w.cursor.line = cursor.line
                /\ w.cursor.x >= 0
                /\ w.cursor.x <= Len(v) - 1
                /\ w.cursor.x \in TwoPhaseEnds(v, cursor.x)

---------------------------------------------------------------------------
(* Undoing everything *)

RECURSIVE UndoUntilEmpty(_)
\* the undo request repeated until the undo stack is empty
UndoUntilEmpty(e) ==
    IF ~Running(e) \/ e.undoStack = <<>> THEN e ELSE UndoUntilEmpty(Undo(e))

\* what ReadText() gave right after the load of the content
LoadedText == IF content = <<>> THEN <<NL>> ELSE content

\* C34: after loading a document and any sequence of Edit-mode single-rune
\* inserts (Enter included) and Backspaces without a selection, interleaved
\* with non-extending cursor movements, repeating the undo request until the
\* undo stack is empty restores ReadText() to the loaded text.
C34_UndoEverything ==
    halted = "run" =>
        /\ Running(UndoUntilEmpty(E))
        /\ UndoUntilEmpty(E).undoStack = <<>>
        /\ ReadText(UndoUntilEmpty(E)) = LoadedText

\* a typed character, a Backspace over a line break and a Backspace over a
\* character are on the undo stack, and the text is no longer the loaded one
C34_Witness ==
    /\ halted = "run"
    /\ Len(undoStack) = 3
    /\ undoStack[1].k = "handleRuneSingle"
    /\ undoStack[2].k = "deleteLineBreak"
    /\ undoStack[3].k = "deleteRune"
    /\ ReadText(E) # LoadedText
    /\ ReadText(UndoUntilEmpty(E)) = LoadedText

---------------------------------------------------------------------------
(* The document in search mode *)

\* the request t made of the present state, if it ends in search mode, left
\* the lines and the undo stack as they are, and with them all that is not
\* the search term, searchIndex, the match highlights or the cursor
ReadOnly(t) ==
    (Running(t) /\ t.mode = SEARCH_MODE) =>
        /\ LineValues(t) = LineValues(E)
        /\ t.undoStack = undoStack
        /\ t.modified = modified
        /\ t.highlighted = highlighted
        /\ t.firstVisible = firstVisible

\* C35: while the editor is in Search mode, every request that leaves it in
\* Search mode (typing a rune, paste, Backspace, Enter, Tab, cycling with
\* up/down, cut, copy) leaves the document text and the undo stack unchanged;
\* only the search term, searchIndex, the match highlights and the cursor may
\* change.
C35_SearchReadOnly ==
    /\ []((halted = "run" /\ mode = SEARCH_MODE) =>
              /\ \A r \in TypedRunes \cup {NL} : ReadOnly(TypeRune(E, r))
              /\ \A rs \in Clips : ReadOnly(Paste(E, rs))
              /\ ReadOnly(Backspace(E))
              /\ ReadOnly(Enter(E))
              /\ ReadOnly(Tab(E))
              /\ ReadOnly(NextMatch(E))
              /\ ReadOnly(PreviousMatch(E))
              /\ ReadOnly(Cut(E))
              /\ ReadOnly(Copy(E)))
    /\ [][(mode = SEARCH_MODE /\ mode' = SEARCH_MODE /\ halted' = "run") =>
              (start' = start /\ undoStack' = undoStack)]_vars

---------------------------------------------------------------------------
(* The modified flag and the text last loaded *)

\* what a request leaves of a document that was just saved: a text that
\* differs from the saved one only with the modified flag set
SoundAfterSave(t) ==
    (t.halted = "run" /\ ReadText(t) # ReadText(E)) => t.modified

\* C36: in every reachable state, a document whose text differs from the
\* text at the most recent Save or Load has its modified flag set; this holds
\* after every kind of change, those of undo and of the line swaps included.
\* No request of Spec saves or loads, so the text last loaded is LoadedText;
\* the second part saves the document and takes one more request.
C36_ModifiedSound ==
    /\ (halted = "run" /\ ReadText(E) # LoadedText) => modified
    /\ halted = "run" =>
            /\ SoundAfterSave(Undo(Save(E)))
            /\ SoundAfterSave(SwapDown(Save(E)))
            /\ SoundAfterSave(SwapUp(Save(E), FALSE))
            /\ SoundAfterSave(Backspace(Save(E)))
            /\ SoundAfterSave(Cut(Save(E)))
            /\ \A r \in TypedRunes \cup {NL} : SoundAfterSave(TypeRune(Save(E), r))

---------------------------------------------------------------------------
(* The scroll offset *)

\* C37: the scroll offset is never negative: in every reachable state
\* firstVisible >= 0, whatever sequence of page-up, page-down and MoveCursor
\* requests led there.
C37_ScrollNotNegative ==
    halted = "run" => firstVisible >= 0

---------------------------------------------------------------------------
(* The moves of the inverse actions *)

\* C38: undo never hits the fatal move: after any sequence of editing,
\* selection, movement, cut and paste requests followed by any number of undo
\* requests, each inverse action's MoveCursor addresses a line that exists, so
\* the editor never ends in the fatal "attempted illegal move" branch.
C38_UndoNeverFatal ==
    /\ halted # "fatal"
    /\ halted = "run" => UndoUntilEmpty(E).halted # "fatal"

---------------------------------------------------------------------------
(* The positions of the selection *)

\* C39: in every reachable state every entry (line, x) of the selection
\* refers to a line linked from the head and has 0 <= x < len(line.values),
\* so getHighlightedRunes never indexes outside a line; this holds also after
\* a line swap or an edit performed while a selection exists.
C39_SelectionValid ==
    halted = "run" =>
        /\ \A p \in highlighted :
               /\ p[1] \in 1..Len(start)
               /\ p[2] >= 0
               /\ p[2] < Len(start[p[1]].values)
        /\ getHighlightedRunes(E).ok

=============================================================================
